---- MODULE Spec2Model ----
(***************************************************************************)
(* Model of src/Dummy.js: the synthetic PZEM telemetry generator.          *)
(*                                                                         *)
(* Numbers that the script rounds with toFixed are kept as scaled          *)
(* integers: voltage and frequency in tenths, pf and power in hundredths,  *)
(* current and energy in thousandths.  A value of Math.random() is the     *)
(* fraction k / RandDen.  Instants are seconds since 1970-01-01T00:00Z     *)
(* (the millisecond part of a JavaScript time value is not kept, so a      *)
(* clock that advances between two reads advances by one second).          *)
(***************************************************************************)
EXTENDS Integers, Sequences, FiniteSets, TLC

(***************************************************************************)
(* Bounds of the model.                                                    *)
(***************************************************************************)
\* Math.random() returns k / RandDen, k taken from RandTape.
RandDen == 2000
\* Documents already in the collection when the run starts: ids 1..MaxExisting.
MaxExisting == 1
\* The clock may advance by up to MaxClockTick seconds between two reads.
MaxClockTick == 1

(***************************************************************************)
(* The Gregorian calendar, as Date uses it.                                *)
(***************************************************************************)
SecPerDay == 24 * 3600

\* Days from 1970-01-01 to year-month-day, month in 1..12.
DaysFromCivil(y, m, d) ==
  LET yy  == IF m <= 2 THEN y - 1 ELSE y
      era == yy \div 400
      yoe == yy - era * 400
      mp  == (m + 9) % 12
      doy == (153 * mp + 2) \div 5 + d - 1
      doe == yoe * 365 + yoe \div 4 - yoe \div 100 + doy
  IN  era * 146097 + doe - 719468

\* <<year, month in 1..12, day>> of a day number.
CivilFromDays(z) ==
  LET zz  == z + 719468
      era == zz \div 146097
      doe == zz - era * 146097
      yoe == (doe - doe \div 1460 + doe \div 36524 - doe \div 146096) \div 365
      doy == doe - (365 * yoe + yoe \div 4 - yoe \div 100)
      mp  == (5 * doy + 2) \div 153
      d   == doy - (153 * mp + 2) \div 5 + 1
      m   == IF mp < 10 THEN mp + 3 ELSE mp - 9
      y   == yoe + era * 400 + (IF m <= 2 THEN 1 ELSE 0)
  IN  <<y, m, d>>

\* ECMAScript MakeDay: month is 0-based and may lie outside 0..11, date may
\* lie outside the month; both carry over.
MakeDay(year, month, date) ==
  LET ym == year + month \div 12
      mn == month % 12
  IN  DaysFromCivil(ym, mn + 1, 1) + date - 1

(***************************************************************************)
(* Time zones: an offset from UTC in seconds, changed at listed instants.  *)
(***************************************************************************)
UTCZone == [base |-> 0, trans |-> << >>]

Kolkata == [base |-> 19800, trans |-> << >>]

\* Europe/London from November 2023 to the end of 2024.
London ==
  [base  |-> 0,
   trans |-> << <<DaysFromCivil(2024, 3, 31) * SecPerDay + 3600, 3600>>,
                <<DaysFromCivil(2024, 10, 27) * SecPerDay + 3600, 0>> >>]

\* America/New_York from November 2023 to the end of 2024.
NewYork ==
  [base  |-> -18000,
   trans |-> << <<DaysFromCivil(2024, 3, 10) * SecPerDay + 25200, -14400>>,
                <<DaysFromCivil(2024, 11, 3) * SecPerDay + 21600, -18000>> >>]

\* The offset in force at UTC instant t.
Offset(z, t) ==
  LET past == {i \in 1..Len(z.trans) : z.trans[i][1] <= t}
  IN  IF past = {} THEN z.base
      ELSE z.trans[CHOOSE i \in past : \A j \in past : j <= i][2]

Offsets(z) == {z.base} \cup {z.trans[i][2] : i \in 1..Len(z.trans)}

\* ECMAScript LocalTime(t).
LocalTime(z, t) == t + Offset(z, t)

\* ECMAScript UTC(tlocal): a local time that a transition skips or repeats is
\* read with the offset in force before the transition.
UTCOf(z, tl) ==
  LET valid == {o \in Offsets(z) : Offset(z, tl - o) = o}
  IN  IF Cardinality(valid) = 1
      THEN tl - (CHOOSE o \in valid : TRUE)
      ELSE tl - Offset(z, tl - SecPerDay)

(***************************************************************************)
(* Date methods.  A Date is its UTC instant; z is the zone of the process. *)
(***************************************************************************)
LocalFields(z, t) ==
  LET tl  == LocalTime(z, t)
      ymd == CivilFromDays(tl \div SecPerDay)
      sod == tl % SecPerDay
  IN  [year |-> ymd[1], month |-> ymd[2] - 1, date |-> ymd[3], sod |-> sod]

getMonth(z, t) == LocalFields(z, t).month

getDate(z, t) == LocalFields(z, t).date

getHours(z, t) == LocalFields(z, t).sod \div 3600

getMinutes(z, t) == (LocalFields(z, t).sod % 3600) \div 60

getSeconds(z, t) == LocalFields(z, t).sod % 60

setMonth(z, t, month) ==
  LET f == LocalFields(z, t)
  IN  UTCOf(z, MakeDay(f.year, month, f.date) * SecPerDay + f.sod)

setDate(z, t, date) ==
  LET f == LocalFields(z, t)
  IN  UTCOf(z, MakeDay(f.year, f.month, date) * SecPerDay + f.sod)

\* d.toISOString().split('T')[0]: the UTC calendar date, <<year, month, day>>.
ISODate(t) == CivilFromDays(t \div SecPerDay)

\* formatTime(date): <<hours in 1..12, minutes, seconds, "AM" | "PM">>, the
\* parts of the string `h:mm:ss AM`.
formatTime(z, t) ==
  LET hours   == getHours(z, t)
      minutes == getMinutes(z, t)
      seconds == getSeconds(z, t)
      ampm    == IF hours >= 12 THEN "PM" ELSE "AM"
      h12     == hours % 12
  IN  <<IF h12 # 0 THEN h12 ELSE 12, minutes, seconds, ampm>>

(***************************************************************************)
(* Numbers.                                                                *)
(***************************************************************************)
\* num / den rounded to the nearest integer (num >= 0, den > 0).  A double
\* that stands for an exact half may lie on either side of it: up says which.
Round(num, den, up) ==
  LET q == num \div den
      r == num % den
  IN  IF 2 * r > den \/ (2 * r = den /\ up) THEN q + 1 ELSE q

Pow10(digits) == CASE digits = 1 -> 10 [] digits = 2 -> 100 [] digits = 3 -> 1000

\* (num / den).toFixed(digits), as an integer count of 10^-digits.
ToFixed(num, den, digits, up) ==
  LET s == Pow10(digits)
  IN  IF den % s = 0 THEN Round(num, den \div s, up) ELSE Round(num * s, den, up)

\* The value NaN, and the number n, of a JavaScript number variable.
NaN == << >>

Num(n) == <<n>>

IsDigit(c) == c \in {"0", "1", "2", "3", "4", "5", "6", "7", "8", "9"}

DigitOf(c) ==
  CASE c = "0" -> 0 [] c = "1" -> 1 [] c = "2" -> 2 [] c = "3" -> 3 [] c = "4" -> 4
    [] c = "5" -> 5 [] c = "6" -> 6 [] c = "7" -> 7 [] c = "8" -> 8 [] c = "9" -> 9

RECURSIVE SkipSpace(_)
SkipSpace(s) == IF s # << >> /\ Head(s) = " " THEN SkipSpace(Tail(s)) ELSE s

\* The value of the longest prefix of digits of s, acc being the value so far.
RECURSIVE DigitsValue(_, _)
DigitsValue(s, acc) ==
  IF s # << >> /\ IsDigit(Head(s))
  THEN DigitsValue(Tail(s), 10 * acc + DigitOf(Head(s)))
  ELSE acc

\* parseInt(answer): leading white space is dropped, a sign is read, then the
\* longest prefix of digits; NaN when there is no digit.
parseInt(answer) ==
  LET s    == SkipSpace(answer)
      neg  == s # << >> /\ Head(s) = "-"
      body == IF s # << >> /\ Head(s) \in {"-", "+"} THEN Tail(s) ELSE s
  IN  IF body = << >> \/ ~IsDigit(Head(body)) THEN NaN
      ELSE Num((IF neg THEN -1 ELSE 1) * DigitsValue(body, 0))

(***************************************************************************)
(* Math.random(): a generator with a hidden state.  The state is a place   *)
(* on RandTape, which holds the numerators k of the values k / RandDen.    *)
(***************************************************************************)
RandTape == <<0, 1999, 400, 1000, 1995>>

RandNums == {RandTape[i] : i \in 1..Len(RandTape)}

\* The states of the generator.
RandStates == 0..(Len(RandTape) - 1)

\* The value of the n-th call (n = 0, 1, ...) from state st, and the state
\* after n calls.
RandomAt(st, n) == RandTape[((st + n) % Len(RandTape)) + 1]

RandomAfter(st, n) == (st + n) % Len(RandTape)

\* A slip in the voltage: a span of 21 V where 20 V is meant.
generateRandomDataWide(energy, ks, up) ==
  LET voltage   == ToFixed(ks[1] * (246 - 225) + 225 * RandDen, RandDen, 1, up)
      pf        == ToFixed(ks[2] + 8 * RandDen, 10 * RandDen, 2, up)
      current   == ToFixed(ks[3] * (100 - 1) + RandDen, 100 * RandDen, 3, up)
      power     == ToFixed(voltage * current * pf, 1000000, 2, up)
      frequency == ToFixed(ks[4] + 498 * RandDen, 10 * RandDen, 1, up)
      formattedEnergy == ToFixed(energy, 1000, 3, up)
  IN  [voltage   |-> voltage,
       current   |-> current,
       power     |-> power,
       energy    |-> formattedEnergy,
       frequency |-> frequency,
       pf        |-> pf]

\* A slip in the power: the power factor is left out of the product.
generateRandomDataApparent(energy, ks, up) ==
  LET voltage   == ToFixed(ks[1] * (245 - 225) + 225 * RandDen, RandDen, 1, up)
      pf        == ToFixed(ks[2] + 8 * RandDen, 10 * RandDen, 2, up)
      current   == ToFixed(ks[3] * (100 - 1) + RandDen, 100 * RandDen, 3, up)
      power     == ToFixed(voltage * current, 10000, 2, up)
      frequency == ToFixed(ks[4] + 498 * RandDen, 10 * RandDen, 1, up)
      formattedEnergy == ToFixed(energy, 1000, 3, up)
  IN  [voltage   |-> voltage,
       current   |-> current,
       power     |-> power,
       energy    |-> formattedEnergy,
       frequency |-> frequency,
       pf        |-> pf]

(***************************************************************************)
(* generateRandomData(energy): ks are the values of its four calls of      *)
(* Math.random(), in the order voltage, pf, current, frequency.            *)
(***************************************************************************)
generateRandomData(energy, ks, up) ==
  LET voltage   == ToFixed(ks[1] * (245 - 225) + 225 * RandDen, RandDen, 1, up)
      pf        == ToFixed(ks[2] + 8 * RandDen, 10 * RandDen, 2, up)
      current   == ToFixed(ks[3] * (100 - 1) + RandDen, 100 * RandDen, 3, up)
      power     == ToFixed(voltage * current * pf, 1000000, 2, up)
      frequency == ToFixed(ks[4] + 498 * RandDen, 10 * RandDen, 1, up)
      formattedEnergy == ToFixed(energy, 1000, 3, up)
  IN  [voltage   |-> voltage,
       current   |-> current,
       power     |-> power,
       energy    |-> formattedEnergy,
       frequency |-> frequency,
       pf        |-> pf]

(***************************************************************************)
(* generateDataForTwoMonths, lines 63-90: the generation of the records.  *)
(***************************************************************************)
\* energyType === 1
IsNormal(energyType) == energyType = Num(1)

\* The starting energy, in thousandths; k is the value of Math.random().
InitialEnergy(energyType, k, up) ==
  IF IsNormal(energyType)
  THEN ToFixed(k * (10 - 5) + 5 * RandDen, 10 * RandDen, 3, up)
  ELSE ToFixed(k * (250 - 150) + 150 * RandDen, RandDen, 3, up)

\* A slip in the increment: 0.005 where 0.5 is meant.
IncrementSmall(energyType) == IF IsNormal(energyType) THEN 3 ELSE 5

\* energyType === 1 ? 0.003 : 0.5, in thousandths.
Increment(energyType) == IF IsNormal(energyType) THEN 3 ELSE 500

\* The condition of the for loop: d <= today, on the time values.
LoopTest(d, today) == d <= today

\* d.setDate(d.getDate() + 1)
NextDay(z, d) == setDate(z, d, getDate(z, d) + 1)

\* now1 and now2 are the clock at the two calls of new Date().
TwoMonthsAgo(z, now1, now2) == setMonth(z, now2, getMonth(z, now1) - 2)

\* Lines 80-84: the record pushed for the loop's Date d.
Record(z, d, e, ks, up, stamp) ==
  generateRandomData(e, ks, up)
    @@ [date |-> ISODate(d), time |-> formatTime(z, d), timestamp |-> stamp]

(***************************************************************************)
(* The run: runDataGeneration and the rest of generateDataForTwoMonths.    *)
(***************************************************************************)
VARIABLES
  pc,              \* the statement the run waits at
  energyType,      \* the value askEnergyType() resolved to
  action,          \* the value askUserAction() resolved to
  zone,            \* the time zone of the process
  rng,             \* the state of Math.random()
  fpUp,            \* the side on which this build's doubles round an exact half
  today,           \* the Date of line 63
  d,               \* the Date of line 64, which is the loop's d
  stamp,           \* the clock read by new Date() at line 84
  initialEnergy,   \* the energy of the next record, in thousandths
  range,           \* the dates logged at line 77
  dataToInsert,    \* the records pushed by the loop
  recordsToDelete, \* the _ids PzemData.find({}) returned
  console,         \* the lines written by console.log and console.error
  events,          \* the prompts asked and the storage calls made, in order
  connected,       \* mongoose holds a connection
  exists,          \* the collection exists in the database
  collection,      \* the _ids of the documents in the collection
  handed,          \* the records passed to insertMany
  settled,         \* the promise of runDataGeneration()
  sampleIn,        \* the inputs of one call of generateRandomData
  sample           \* the record that call returned

vars == <<pc, energyType, action, zone, rng, fpUp, today, d, stamp, initialEnergy, range, dataToInsert, recordsToDelete, console,
          events, connected, exists, collection, handed, settled, sampleIn, sample>>

gen == <<zone, rng, fpUp, today, d, stamp, initialEnergy, range, dataToInsert>>

\* What the user may type at a prompt.
Answers ==
  { <<"1">>, <<"2">>, <<"3">>, <<"x">>, <<" ", "2", "x">> }

\* The process's zone and the clock at the first call of new Date().
At(y, m, day, h, mi) == DaysFromCivil(y, m, day) * SecPerDay + h * 3600 + mi * 60

NowCases ==
  { [zone |-> UTCZone, now |-> At(2024, 6, 15, 12, 0)],
    [zone |-> UTCZone, now |-> At(2024, 4, 30, 9, 15)],
    [zone |-> Kolkata, now |-> At(2024, 1, 15, 20, 0)],
    [zone |-> Kolkata, now |-> At(2024, 12, 31, 4, 40)],
    [zone |-> London,  now |-> At(2024, 4, 14, 23, 30)],
    [zone |-> NewYork, now |-> At(2024, 11, 21, 0, 30)] }

NoSample == [energy |-> 0, ks |-> << >>, up |-> FALSE]

Event(op, ok) == [op |-> op, ok |-> ok]

Log(text) == <<"log", text>>

Error(op) == <<"error", op>>

Init ==
  /\ pc = "askEnergyType"
  /\ energyType = NaN
  /\ action = NaN
  /\ zone \in {c.zone : c \in NowCases}
  /\ rng \in RandStates
  /\ fpUp \in BOOLEAN
  /\ today = 0
  /\ d = 0
  /\ stamp = 0
  /\ initialEnergy = 0
  /\ range = << >>
  /\ dataToInsert = << >>
  /\ recordsToDelete = {}
  /\ console = << >>
  /\ events = << >>
  /\ connected = FALSE
  /\ exists \in BOOLEAN
  /\ collection \in SUBSET (1..MaxExisting)
  /\ (~exists => collection = {})
  /\ handed = << >>
  /\ settled = "pending"
  /\ sampleIn = NoSample
  /\ sample = << >>

\* A catch block that returns: the finally block is not run.
CatchNextReturns == "done"

\* Where a rejected await inside the try block continues: the catch block
\* logs the error and falls into the finally block.
CatchNext == "disconnect"

\* A catch block that tries the rejected call again.
CatchRetry(op) ==
  /\ console' = Append(console, Error(op))
  /\ pc' = op

Catch(op) ==
  /\ console' = Append(console, Error(op))
  /\ pc' = CatchNext

\* Lines 159-160 and 144-156.
AskEnergyType ==
  /\ pc = "askEnergyType"
  /\ \E answer \in Answers : energyType' = parseInt(answer)
  /\ events' = Append(events, Event("askEnergyType", TRUE))
  /\ pc' = "generate"
  /\ UNCHANGED <<action, gen, recordsToDelete, console, connected,
                 exists, collection, handed, settled, sampleIn, sample>>

\* Lines 63-77: the two clock reads, the start of the range and the
\* starting energy.
Generate ==
  /\ pc = "generate"
  /\ \E c \in {x \in NowCases : x.zone = zone}, tick \in 0..MaxClockTick :
       /\ today' = c.now
       /\ d' = TwoMonthsAgo(zone, c.now, c.now + tick)
       /\ stamp' = c.now + tick
       /\ range' = <<ISODate(d'), ISODate(today')>>
  /\ initialEnergy' = InitialEnergy(energyType, RandomAt(rng, 0), fpUp)
  /\ rng' = RandomAfter(rng, 1)
  /\ console' = Append(console, Log("Generating data"))
  /\ pc' = "loop"
  /\ UNCHANGED <<energyType, action, zone, fpUp, dataToInsert, recordsToDelete,
                 events, connected, exists, collection, handed, settled,
                 sampleIn, sample>>

\* Lines 79-90: one turn of the for loop.
LoopBody ==
  /\ pc = "loop"
  /\ LoopTest(d, today)
  /\ LET ks == <<RandomAt(rng, 0), RandomAt(rng, 1), RandomAt(rng, 2),
                 RandomAt(rng, 3)>>
     IN  dataToInsert' =
           Append(dataToInsert, Record(zone, d, initialEnergy, ks, fpUp, stamp))
  /\ rng' = RandomAfter(rng, 4)
  /\ initialEnergy' = ToFixed(initialEnergy + Increment(energyType), 1000, 3, fpUp)
  /\ d' = NextDay(zone, d)
  /\ UNCHANGED <<pc, energyType, action, zone, fpUp, today, stamp, range,
                 recordsToDelete, console, events, connected, exists, collection,
                 handed, settled, sampleIn, sample>>

\* The prompt asked before the connection is opened.
AfterLoopAsksFirst == "askUserAction"

\* The statement after the loop: the try block opens with the connect.
AfterLoop == "connect"

\* Line 79: the loop ends; line 92 follows.
LoopExit ==
  /\ pc = "loop"
  /\ ~LoopTest(d, today)
  /\ events' = Append(events, Event("generate", TRUE))
  /\ pc' = AfterLoop
  /\ UNCHANGED <<energyType, action, gen, recordsToDelete, console, connected,
                 exists, collection, handed, settled, sampleIn, sample>>

\* Lines 93-95.
Connect ==
  /\ pc = "connect"
  /\ \E ok \in BOOLEAN :
       /\ events' = Append(events, Event("connect", ok))
       /\ IF ok
          THEN /\ connected' = TRUE
               /\ console' = Append(console, Log("Connected to MongoDB"))
               /\ pc' = "listCollections"
          ELSE /\ Catch("connect")
               /\ UNCHANGED connected
  /\ UNCHANGED <<energyType, action, gen, recordsToDelete, exists,
                 collection, handed, settled, sampleIn, sample>>

\* Lines 97-100.
ListCollections ==
  /\ pc = "listCollections"
  /\ \E ok \in BOOLEAN :
       /\ events' = Append(events, Event("listCollections", ok))
       /\ IF ok
          THEN /\ console' = IF exists THEN console
                             ELSE Append(console, Log("Collection does not exist"))
               /\ pc' = "askUserAction"
          ELSE Catch("listCollections")
  /\ UNCHANGED <<energyType, action, gen, recordsToDelete,
                 connected, exists, collection, handed, settled, sampleIn, sample>>

\* A branch that takes every code other than 1 for a delete, the way line 73
\* takes every mode other than 1 for "greater".
BranchDefaulting(a) == IF a = Num(1) THEN "insertMany" ELSE "find"

\* The branch taken at lines 104, 108 and 117.
Branch(a) ==
  IF a = Num(1) THEN "insertMany" ELSE IF a = Num(2) THEN "find" ELSE "invalid"

\* Lines 102-105, 108, 117-119 and 129-141.
AskUserAction ==
  /\ pc = "askUserAction"
  /\ \E answer \in Answers :
       LET a == parseInt(answer)
       IN  /\ action' = a
           /\ CASE Branch(a) = "insertMany" ->
                     /\ console' = Append(console, Log("Inserting records"))
                     /\ pc' = "insertMany"
                [] Branch(a) = "find" ->
                     /\ console' = console
                     /\ pc' = "find"
                [] Branch(a) = "invalid" ->
                     /\ console' = Append(console, Log("Invalid action"))
                     /\ pc' = "disconnect"
  /\ events' = Append(events, Event("askUserAction", TRUE))
  /\ UNCHANGED <<energyType, gen, recordsToDelete, connected,
                 exists, collection, handed, settled, sampleIn, sample>>

\* The _ids given to n new documents.
NewIds(n) == (MaxExisting + 1)..(MaxExisting + n)

\* Lines 106-107.  A failed insertMany has written nothing, or the first
\* document only.
InsertMany ==
  /\ pc = "insertMany"
  /\ handed' = dataToInsert
  /\ \E ok \in BOOLEAN :
       /\ events' = Append(events, Event("insertMany", ok))
       /\ IF ok
          THEN /\ collection' = collection \cup NewIds(Len(dataToInsert))
               /\ exists' = TRUE
               /\ console' = Append(console, Log("Successfully inserted"))
               /\ pc' = "disconnect"
          ELSE /\ \E written \in {0, IF dataToInsert = << >> THEN 0 ELSE 1} :
                    /\ collection' = collection \cup NewIds(written)
                    /\ exists' = (exists \/ written > 0)
               /\ Catch("insertMany")
  /\ UNCHANGED <<energyType, action, gen, recordsToDelete,
                 connected, settled, sampleIn, sample>>

\* A test that lets an empty result through: >= where > is meant.
HasRecordsOrNone(found) == Cardinality(found) >= 0

\* recordsToDelete.length > 0
HasRecords(found) == Cardinality(found) > 0

\* Lines 109-110 and 114-116.
Find ==
  /\ pc = "find"
  /\ \E ok \in BOOLEAN :
       /\ events' = Append(events, Event("find", ok))
       /\ IF ok
          THEN /\ recordsToDelete' = collection
               /\ IF HasRecords(collection)
                  THEN /\ console' = console
                       /\ pc' = "deleteMany"
                  ELSE /\ console' = Append(console, Log("No records found to delete."))
                       /\ pc' = "disconnect"
          ELSE /\ Catch("find")
               /\ UNCHANGED recordsToDelete
  /\ UNCHANGED <<energyType, action, gen, connected, exists,
                 collection, handed, settled, sampleIn, sample>>

\* Lines 111-113.  A failed deleteMany has deleted nothing, or everything
\* (the acknowledgement was lost).
DeleteMany ==
  /\ pc = "deleteMany"
  /\ \E ok \in BOOLEAN :
       /\ events' = Append(events, Event("deleteMany", ok))
       /\ IF ok
          THEN /\ collection' = collection \ recordsToDelete
               /\ console' = Append(console, Log("Successfully deleted"))
               /\ pc' = "disconnect"
          ELSE /\ collection' \in {collection, collection \ recordsToDelete}
               /\ Catch("deleteMany")
  /\ UNCHANGED <<energyType, action, gen, recordsToDelete,
                 connected, exists, handed, settled, sampleIn, sample>>

\* Lines 122-125 and 161-162: the finally block.  A rejected disconnect
\* rejects the promise of runDataGeneration.
Disconnect ==
  /\ pc = "disconnect"
  /\ \E ok \in BOOLEAN :
       /\ events' = Append(events, Event("disconnect", ok))
       /\ IF ok
          THEN /\ connected' = FALSE
               /\ console' = Append(console, Log("Disconnected from MongoDB"))
               /\ settled' = "fulfilled"
          ELSE /\ UNCHANGED <<connected, console>>
               /\ settled' = "rejected"
  /\ pc' = "done"
  /\ UNCHANGED <<energyType, action, gen, recordsToDelete, exists,
                 collection, handed, sampleIn, sample>>

Next ==
  \/ AskEnergyType
  \/ Generate
  \/ LoopBody
  \/ LoopExit
  \/ Connect
  \/ ListCollections
  \/ AskUserAction
  \/ InsertMany
  \/ Find
  \/ DeleteMany
  \/ Disconnect

Spec == Init /\ [][Next]_vars

(***************************************************************************)
(* One call of generateRandomData, on inputs drawn from bounded sets.      *)
(***************************************************************************)
SampleEnergies == {500, 1000, 150000}

SampleInit ==
  /\ pc = "sample"
  /\ energyType = NaN
  /\ action = NaN
  /\ zone = UTCZone
  /\ rng = 0
  /\ fpUp = FALSE
  /\ today = 0
  /\ d = 0
  /\ stamp = 0
  /\ initialEnergy = 0
  /\ range = << >>
  /\ dataToInsert = << >>
  /\ recordsToDelete = {}
  /\ console = << >>
  /\ events = << >>
  /\ connected = FALSE
  /\ exists = FALSE
  /\ collection = {}
  /\ handed = << >>
  /\ settled = "pending"
  /\ sampleIn \in [energy : SampleEnergies,
                   ks : RandNums \X RandNums \X RandNums \X RandNums,
                   up : BOOLEAN]
  /\ sample = << >>

\* Lines 27-47.
SampleCall ==
  /\ pc = "sample"
  /\ sample' = generateRandomData(sampleIn.energy, sampleIn.ks, sampleIn.up)
  /\ pc' = "sampled"
  /\ UNCHANGED <<energyType, action, gen, recordsToDelete, console, events,
                 connected, exists, collection, handed, settled, sampleIn>>

SampleSpec == SampleInit /\ [][SampleCall]_vars

(***************************************************************************)
(* Vocabulary of the properties.                                           *)
(***************************************************************************)
Ops == {events[i].op : i \in 1..Len(events)}

Succeeded(op) == \E i \in 1..Len(events) : events[i] = Event(op, TRUE)

Failed(op) == \E i \in 1..Len(events) : events[i] = Event(op, FALSE)

Count(op) == Cardinality({i \in 1..Len(events) : events[i].op = op})

Logged(line) == \E i \in 1..Len(console) : console[i] = line

\* Every call against the storage collaborator.
StorageOps ==
  {"connect", "listCollections", "insertMany", "find", "deleteMany", "disconnect"}

\* The calls that read or write the collection's documents.
DataOps == {"insertMany", "find", "deleteMany"}

\* The calls made inside the try block.
TryOps == StorageOps \ {"disconnect"}

\* The statements from the connect to the disconnect.
StoragePhase == StorageOps \cup {"askUserAction"}

ValidCodes == {Num(1), Num(2)}

ModeAnswered == "askEnergyType" \in Ops

ActionAnswered == "askUserAction" \in Ops

Generated == "generate" \in Ops

DayNumber(date) == DaysFromCivil(date[1], date[2], date[3])

(***************************************************************************)
(* The properties.                                                         *)
(***************************************************************************)

\* C1: when the mode prompt resolves to a value outside {1, 2}, the run
\* aborts before any storage call: no connect, listCollections, insertMany,
\* find or deleteMany is made, and no record is generated as if the value
\* were one of the two modes.
C1_InvalidModeAborts ==
  (ModeAnswered /\ energyType \notin ValidCodes) =>
     /\ Ops \cap StorageOps = {}
     /\ dataToInsert = << >>

\* C2, as stated: when the action prompt resolves to a value outside {1, 2},
\* no operation at all is issued against the storage collaborator in the run.
C2_InvalidActionNoStorageOperation ==
  (ActionAnswered /\ action \notin ValidCodes) => Ops \cap StorageOps = {}

\* C2, amended: when the action prompt resolves to a value outside {1, 2},
\* the action is aborted with a message, no insertMany, find or deleteMany is
\* made, nothing is handed to the collaborator, and the only calls against
\* it are the connect and listCollections before the prompt and the
\* disconnect after it.
C2_InvalidActionNoDataOperation ==
  (ActionAnswered /\ action \notin ValidCodes) =>
     /\ Logged(Log("Invalid action"))
     /\ Ops \cap DataOps = {}
     /\ handed = << >>
     /\ Ops \cap StorageOps \subseteq {"connect", "listCollections", "disconnect"}
     /\ pc \in {"disconnect", "done"}
     /\ (pc = "done" => Count("disconnect") = 1)

C2_Witness ==
  /\ pc = "done"
  /\ ActionAnswered
  /\ action = Num(3)
  /\ Succeeded("disconnect")

\* C3: once the run is in the storage phase it goes on until the connection
\* is released by exactly one disconnect call, which is the last call made;
\* every failure of a call of the try block (connect, listCollections,
\* insertMany, find, deleteMany) is caught and logged, and does not reject
\* the run.
C3_ReleasedOnce ==
  /\ Count("disconnect") <= 1
  /\ \A i \in 1..Len(events) : events[i].op = "disconnect" => i = Len(events)
  /\ (pc = "done" /\ "connect" \in Ops) => Count("disconnect") = 1
  /\ pc \in StoragePhase => ENABLED Next
  /\ \A op \in TryOps :
       Failed(op) =>
         /\ Logged(Error(op))
         /\ pc \in {"disconnect", "done"}
         /\ (settled = "rejected" => Failed("disconnect"))

C3_Witness ==
  /\ pc = "done"
  /\ Failed("insertMany")
  /\ Succeeded("disconnect")
  /\ settled = "fulfilled"

\* C4: the loop emits exactly one record per calendar day of the inclusive
\* range it logs: (to - from + 1) records, the i-th dated from + (i - 1).
C4_OneRecordPerDay ==
  (Generated /\ DayNumber(range[1]) <= DayNumber(range[2])) =>
     /\ Len(dataToInsert) = DayNumber(range[2]) - DayNumber(range[1]) + 1
     /\ \A i \in 1..Len(dataToInsert) :
          dataToInsert[i].date = CivilFromDays(DayNumber(range[1]) + i - 1)

\* C5: energy never decreases along the records, consecutive records differ
\* by exactly 3 thousandths in mode 1 and 500 thousandths in mode 2, and the
\* first record carries the starting energy: record i holds the running
\* energy less the steps added since it was pushed.
C5_EnergySteps ==
  LET n == Len(dataToInsert)
  IN  /\ \A i \in 1..(n - 1) :
           /\ dataToInsert[i].energy <= dataToInsert[i + 1].energy
           /\ energyType = Num(1) =>
                dataToInsert[i + 1].energy - dataToInsert[i].energy = 3
           /\ energyType = Num(2) =>
                dataToInsert[i + 1].energy - dataToInsert[i].energy = 500
      /\ (pc = "loop" /\ n = 0 /\ energyType = Num(1)) =>
            initialEnergy \in 500..1000
      /\ (pc = "loop" /\ n = 0 /\ energyType = Num(2)) =>
            initialEnergy \in 150000..250000
      /\ (n > 0 /\ energyType = Num(1)) =>
            dataToInsert[1].energy + 3 * n = initialEnergy
      /\ (n > 0 /\ energyType = Num(2)) =>
            dataToInsert[1].energy + 500 * n = initialEnergy

C5_Witness ==
  /\ energyType = Num(1)
  /\ Len(dataToInsert) >= 3
  /\ dataToInsert[1].energy = 500
  /\ dataToInsert[2].energy = 503
  /\ dataToInsert[3].energy = 506

\* C6: a run calls insertMany at most once and deleteMany at most once, never
\* both, and a failed insertMany or deleteMany is followed by no further
\* insert, find or delete: the failure is logged and the run goes to the
\* disconnect.
C6_SingleAttempt ==
  /\ Count("insertMany") <= 1
  /\ Count("deleteMany") <= 1
  /\ ~("insertMany" \in Ops /\ "deleteMany" \in Ops)
  /\ \A i \in 1..Len(events) :
       (events[i].op \in {"insertMany", "deleteMany"} /\ ~events[i].ok) =>
          /\ \A j \in (i + 1)..Len(events) : events[j].op = "disconnect"
          /\ Logged(Error(events[i].op))
          /\ pc \in {"disconnect", "done"}

C6_Witness ==
  /\ pc = "done"
  /\ Failed("deleteMany")
  /\ Count("deleteMany") = 1

\* C7: when the action is delete and find returns no record, nothing is
\* deleted: deleteMany is not called, the collection stays empty, no error is
\* logged, and the run goes on to the disconnect; when find returns records
\* and deleteMany succeeds, every record found is gone.
C7_DeleteOnEmptyIsNoOp ==
  /\ (action = Num(2) /\ Succeeded("find") /\ recordsToDelete = {}) =>
        /\ "deleteMany" \notin Ops
        /\ collection = {}
        /\ Logged(Log("No records found to delete."))
        /\ \A op \in TryOps : ~Logged(Error(op))
        /\ pc \in {"disconnect", "done"}
        /\ (pc = "done" => Count("disconnect") = 1)
  /\ (action = Num(2) /\ Succeeded("find") /\ recordsToDelete # {}) =>
        /\ pc = "deleteMany" \/ "deleteMany" \in Ops
        /\ Succeeded("deleteMany") => collection \cap recordsToDelete = {}

C7_Witness ==
  /\ pc = "done"
  /\ action = Num(2)
  /\ Succeeded("find")
  /\ recordsToDelete = {}
  /\ Succeeded("disconnect")

\* C8: every record generateRandomData returns has its voltage in
\* [225.0, 245.0], its current in [0.01, 1.0], its power factor in [0.8, 0.9]
\* and its frequency in [49.8, 49.9].
C8_FieldRanges ==
  pc = "sampled" =>
     /\ sample.voltage \in 2250..2450
     /\ sample.current \in 10..1000
     /\ sample.pf \in 80..90
     /\ sample.frequency \in 498..499

C8_Witness ==
  /\ pc = "sampled"
  /\ sample.voltage = 2450
  /\ sample.current = 1000
  /\ sample.pf = 80
  /\ sample.frequency = 499

\* C9: the power of a record is the product of the record's own voltage,
\* current and power factor rounded to 2 decimals: it is within half a
\* hundredth of that product.
C9_PowerIsProduct ==
  pc = "sampled" =>
     LET product == sample.voltage * sample.current * sample.pf
         delta   == sample.power * 10000 - product
     IN  -5000 <= delta /\ delta <= 5000

C9_Witness ==
  /\ pc = "sampled"
  /\ sample.voltage = 2250
  /\ sample.current = 10
  /\ sample.pf = 82
  /\ sample.power = 185

\* The place of a step in the order of a run.
Rank(op) ==
  CASE op = "askEnergyType" -> 1
    [] op = "generate" -> 2
    [] op = "connect" -> 3
    [] op = "listCollections" -> 4
    [] op = "askUserAction" -> 5
    [] op \in {"insertMany", "find"} -> 6
    [] op = "deleteMany" -> 7
    [] op = "disconnect" -> 8

\* C10: the steps of a run come in the order mode prompt, generation,
\* connect, listCollections, action prompt, one insert or delete, disconnect;
\* the action prompt is asked only after connect and listCollections have
\* succeeded, and the records given to insertMany are the generated ones,
\* given only when the action is insert.
C10_StepOrder ==
  /\ \A i, j \in 1..Len(events) :
       i < j => Rank(events[i].op) < Rank(events[j].op)
  /\ events # << >> => events[1].op = "askEnergyType"
  /\ "connect" \in Ops => Generated
  /\ Generated => pc # "loop"
  /\ ActionAnswered => Succeeded("connect") /\ Succeeded("listCollections")
  /\ Ops \cap DataOps # {} => ActionAnswered
  /\ "deleteMany" \in Ops => Succeeded("find")
  /\ Failed("connect") => ~ActionAnswered /\ Ops \cap DataOps = {}
  /\ "insertMany" \in Ops <=> (ActionAnswered /\ action = Num(1) /\ pc # "insertMany")
  /\ handed = IF "insertMany" \in Ops THEN dataToInsert ELSE << >>
  /\ pc = "done" => events[Len(events)].op = "disconnect"

C10_Witness ==
  /\ pc = "done"
  /\ Failed("connect")
  /\ Len(events) = 4

====
